---- MODULE Spec2Model ----
(***************************************************************************)
(* Model of weight_calculator.py: read_data_from_list builds the holding   *)
(* graph row by row, calculate_weights walks it recursively.  The set      *)
(* `visited` is the default argument of calculate_weights: Python creates  *)
(* it once, at function definition, and every call that passes no path     *)
(* argument shares it.                                                     *)
(*                                                                         *)
(* Numbers: a value is Decimal(float(text)), exact for the small integers  *)
(* used here.  Quotients and products of Decimals are modelled as exact    *)
(* rationals <<numerator, denominator>>; the 28-digit rounding of the      *)
(* decimal context is not modelled.                                        *)
(***************************************************************************)
EXTENDS Integers, Sequences, FiniteSets, TLC

\* Longest funds_list handed to one read_data_from_list call.
MaxRows == 4

Names == {"A", "B", "C", "D"}

\* The (parent, child) pairs of the rows offered: enough for chains of
\* depth three, diamonds, funds held by siblings, self-edges and cycles of
\* length two and three.
Pairs ==
    {<<"A", "A">>, <<"A", "B">>, <<"A", "C">>, <<"A", "D">>,
     <<"B", "A">>, <<"B", "C">>, <<"B", "D">>,
     <<"C", "A">>, <<"C", "B">>, <<"C", "D">>}

\* Rows offered to read_data_from_list: well-formed rows, rows whose value
\* is zero, negative or not a number, and rows of the wrong shape.
InputRows ==
    {<<pr[1], pr[2], "1">> : pr \in Pairs}
    \cup {<<"A", "B", "2">>, <<"A", "B", "0">>, <<"A", "A", "0">>, <<"A", "A", "-1">>}
    \cup {<<"B", "D">>, <<"B", "D", "500", "W">>, <<"B", "D", "">>,
          <<"", "B", "1">>, <<"A", "", "1">>, <<"", "B", "x">>}

VARIABLES
    funds_list,   \* read_data_from_list: the rows of its argument taken so far
    funds,        \* read_data_from_list: name -> sequence of holdings, in insertion order
    has_parent,   \* read_data_from_list: names that occurred as child
    idx,          \* read_data_from_list: 1-based position of the last row taken
    pc,           \* "reading", "returned" or "raised"
    read_error,   \* the exception read_data_from_list raised
    root_nodes,   \* second component of the returned tuple
    visited,      \* the default argument of calculate_weights
    last          \* the last top-level calculate_weights call and its outcome

vars == <<funds_list, funds, has_parent, idx, pc, read_error, root_nodes, visited, last>>

----------------------------------------------------------------------------
\* Exact rationals.

Abs(n) == IF n < 0 THEN -n ELSE n

RECURSIVE GCD(_, _)
GCD(a, b) == IF b = 0 THEN a ELSE GCD(b, a % b)

Rat(n, d) ==
    LET g == GCD(Abs(n), Abs(d))
        s == IF d < 0 THEN -1 ELSE 1
    IN  <<(s * n) \div g, (s * d) \div g>>

RMul(x, y) == Rat(x[1] * y[1], x[2] * y[2])
RAdd(x, y) == Rat(x[1] * y[2] + y[1] * x[2], x[2] * y[2])

----------------------------------------------------------------------------
\* read_data_from_list

NoError == [type |-> "none", msg |-> "none", line |-> 0]

\* Decimal(float(text)): the number, or ValueError.
ParseValue(text) ==
    CASE text = "1"  -> [ok |-> TRUE, val |-> 1]
      [] text = "2"  -> [ok |-> TRUE, val |-> 2]
      [] text = "0"  -> [ok |-> TRUE, val |-> 0]
      [] text = "-1" -> [ok |-> TRUE, val |-> -1]
      [] text = "500" -> [ok |-> TRUE, val |-> 500]
      [] OTHER       -> [ok |-> FALSE, val |-> 0]

\* funds[name] on a defaultdict(Fund): the key is created when missing.
Touch(fs, name) ==
    IF name \in DOMAIN fs THEN fs
    ELSE [n \in DOMAIN fs \cup {name} |-> IF n = name THEN <<>> ELSE fs[n]]

\* The membership test with the parent's name where the child's belongs.
HoldsParentName(fs, parent, child) ==
    /\ parent \in DOMAIN fs
    /\ \E i \in 1..Len(fs[parent]) : fs[parent][i].child = parent

\* child in funds[parent].values
Holds(fs, parent, child) ==
    /\ parent \in DOMAIN fs
    /\ \E i \in 1..Len(fs[parent]) : fs[parent][i].child = child

\* funds[parent].values[child] = value ; funds[child]
AddHolding(fs, parent, child, value) ==
    LET f1 == Touch(fs, parent)
        f2 == [f1 EXCEPT ![parent] = Append(@, [child |-> child, value |-> value])]
    IN  Touch(f2, child)

\* has_parent.add(child)
AddChild(hp, child) == hp \cup {child}

\* raise: the call ends without a result, its locals end with it.
Raise(type, msg, line) ==
    /\ pc' = "raised"
    /\ read_error' = [type |-> type, msg |-> msg, line |-> line]
    /\ funds_list' = <<>>
    /\ funds' = <<>>
    /\ has_parent' = {}
    /\ idx' = 0
    /\ UNCHANGED root_nodes

\* One iteration of the for loop over funds_list.
ReadRow(row) ==
    /\ pc = "reading"
    /\ idx < MaxRows
    /\ UNCHANGED <<visited, last>>
    /\ IF Len(row) # 3
       THEN Raise("DataError", "Incorrect data format", idx + 1)
       ELSE LET parent == row[1]
                child  == row[2]
                value  == ParseValue(row[3])
            IN  IF ~value.ok
                THEN Raise("ValueError", "could not convert", idx + 1)
                ELSE IF parent = "" \/ child = ""
                THEN Raise("DataError", "Incorrect data format", idx + 1)
                ELSE IF Holds(funds, parent, child)
                THEN Raise("DataError", "Duplicate fund entry", idx + 1)
                ELSE /\ funds_list' = Append(funds_list, row)
                     /\ idx' = idx + 1
                     /\ funds' = AddHolding(funds, parent, child, value.val)
                     /\ has_parent' = AddChild(has_parent, child)
                     /\ UNCHANGED <<pc, read_error, root_nodes>>

\* The difference with its operands swapped.
RootNodesSwapped(fs, hp) == hp \ DOMAIN fs

\* root_nodes = funds.keys() - has_parent
RootNodes(fs, hp) == DOMAIN fs \ hp

\* The loop is over: return funds, root_nodes.  The other locals of the
\* call (the argument, has_parent, idx) end with it.
Return ==
    /\ pc = "reading"
    /\ pc' = "returned"
    /\ root_nodes' = RootNodes(funds, has_parent)
    /\ funds_list' = <<>>
    /\ has_parent' = {}
    /\ idx' = 0
    /\ UNCHANGED <<funds, read_error, visited, last>>

NoCall ==
    [called |-> FALSE, fund |-> "", fresh |-> FALSE, st |-> "none",
     errfund |-> "", value |-> 0, weights |-> [none |-> TRUE, items |-> <<>>]]

\* A new call of read_data_from_list in the same process (main reads the
\* returns list and the funds list; each test reads its own data).
ReadStart ==
    /\ pc \in {"returned", "raised"}
    /\ pc' = "reading"
    /\ funds_list' = <<>>
    /\ funds' = <<>>
    /\ has_parent' = {}
    /\ idx' = 0
    /\ read_error' = NoError
    /\ root_nodes' = {}
    /\ last' = NoCall
    /\ UNCHANGED visited

----------------------------------------------------------------------------
\* calculate_weights

\* Python's None and a dict, told apart; `not x` is true of None and of {}.
None == [none |-> TRUE, items |-> <<>>]
Dict(items) == [none |-> FALSE, items |-> items]
Falsy(x) == x.none \/ x.items = <<>>

\* sum(fund.values.values())
RECURSIVE SumValues(_, _)
SumValues(hs, i) == IF i > Len(hs) THEN 0 ELSE hs[i].value + SumValues(hs, i + 1)

FundValue(hs) == SumValues(hs, 1)

HasKey(ws, name) == \E i \in 1..Len(ws) : ws[i].name = name

\* d[k] = x on the inner dict d
Assign(d, k, x) == [kk \in DOMAIN d \cup {k} |-> IF kk = k THEN x ELSE d[kk]]

\* weights[name][k] = x on the defaultdict(dict): a missing name is created,
\* at the end of the dict's order.
SetItem(ws, name, k, x) ==
    IF HasKey(ws, name)
    THEN [i \in 1..Len(ws) |->
             IF ws[i].name = name THEN [ws[i] EXCEPT !.w = Assign(@, k, x)] ELSE ws[i]]
    ELSE Append(ws, [name |-> name, w |-> Assign(<<>>, k, x)])

\* weights[name] = d, as dict.update does it for one key
PutItem(ws, name, d) ==
    IF HasKey(ws, name)
    THEN [i \in 1..Len(ws) |-> IF ws[i].name = name THEN [ws[i] EXCEPT !.w = d] ELSE ws[i]]
    ELSE Append(ws, [name |-> name, w |-> d])

\* weights.update(sub_weights)
RECURSIVE Update(_, _, _)
Update(ws, sub, j) ==
    IF j > Len(sub) THEN ws ELSE Update(PutItem(ws, sub[j].name, sub[j].w), sub, j + 1)

\* for k, v in wsf_weight.items(): weights[fund_name][k] = v * (value / fund_value)
RECURSIVE NormalizeInto(_, _, _, _, _)
NormalizeInto(ws, fund_name, wsf_weight, keys, ratio) ==
    IF keys = {} THEN ws
    ELSE LET k == CHOOSE x \in keys : TRUE
         IN  NormalizeInto(SetItem(ws, fund_name, k, RMul(wsf_weight[k], ratio)),
                           fund_name, wsf_weight, keys \ {k}, ratio)

\* for wsf_name, wsf_weight in sub_weights.items(): normalize, then update
RECURSIVE MergeSub(_, _, _, _, _)
MergeSub(ws, fund_name, sub, ratio, j) ==
    IF j > Len(sub) THEN ws
    ELSE LET w1 == NormalizeInto(ws, fund_name, sub[j].w, DOMAIN sub[j].w, ratio)
         IN  MergeSub(Update(w1, sub, 1), fund_name, sub, ratio, j + 1)

Raised(type, name, vis) ==
    [st |-> type, errfund |-> name, value |-> 0, weights |-> None, vis |-> vis]

\* The fund stays on the path when its traversal returns.
RemoveVisitedNever(vis, fund_name) == vis

\* visited.remove(fund_name)
RemoveVisited(vis, fund_name) == vis \ {fund_name}

RECURSIVE calculate_weights(_, _, _)
RECURSIVE SubFunds(_, _, _, _, _, _)

\* The body of `for key, value in fund.values.items()`, from item i on.
SubFunds(g, fund_name, fund_value, i, ws, vis) ==
    IF i > Len(g[fund_name])
    THEN [st |-> "ok", errfund |-> "", value |-> fund_value,
          weights |-> Dict(ws), vis |-> RemoveVisited(vis, fund_name)]
    ELSE LET key   == g[fund_name][i].child
             value == g[fund_name][i].value
             sub   == calculate_weights(g, key, vis)
         IN  IF sub.st # "ok" THEN sub
             ELSE IF fund_value = 0
             THEN Raised(IF value = 0 THEN "InvalidOperation" ELSE "DivisionByZero",
                         fund_name, sub.vis)
             ELSE LET ratio == Rat(value, fund_value)
                      ws1 == IF Falsy(sub.weights)
                             THEN SetItem(ws, fund_name, key, ratio)
                             ELSE MergeSub(ws, fund_name, sub.weights.items, ratio, 1)
                  IN  SubFunds(g, fund_name, fund_value, i + 1, ws1, sub.vis)

calculate_weights(g, fund_name, vis) ==
    IF fund_name \in vis
    THEN Raised("DataError", fund_name, vis)
    ELSE IF Len(g[fund_name]) > 0
    THEN SubFunds(g, fund_name, FundValue(g[fund_name]), 1, <<>>, vis \cup {fund_name})
    ELSE [st |-> "ok", errfund |-> "", value |-> 0, weights |-> None, vis |-> vis]

\* A top-level call calculate_weights(funds, fund_name): no path argument,
\* so the path is the shared default set.
Calculate(fund_name) ==
    /\ pc = "returned"
    /\ fund_name \in DOMAIN funds
    /\ LET r == calculate_weights(funds, fund_name, visited)
       IN  /\ visited' = r.vis
           /\ last' = [called |-> TRUE, fund |-> fund_name, fresh |-> (visited = {}),
                       st |-> r.st, errfund |-> r.errfund, value |-> r.value,
                       weights |-> r.weights]
    /\ UNCHANGED <<funds_list, funds, has_parent, idx, pc, read_error, root_nodes>>

----------------------------------------------------------------------------
Init ==
    /\ funds_list = <<>>
    /\ funds = <<>>
    /\ has_parent = {}
    /\ idx = 0
    /\ pc = "reading"
    /\ read_error = NoError
    /\ root_nodes = {}
    /\ visited = {}
    /\ last = NoCall

Next ==
    \/ \E row \in InputRows : ReadRow(row)
    \/ Return
    \/ ReadStart
    \/ \E fund_name \in Names : Calculate(fund_name)

Spec == Init /\ [][Next]_vars

----------------------------------------------------------------------------
\* Vocabulary of the properties: the graph as the specification sees it.

Children(g, n) == {g[n][i].child : i \in 1..Len(g[n])}

RECURSIVE Closure(_, _)
Closure(g, S) ==
    LET T == S \cup UNION {Children(g, n) : n \in S}
    IN  IF T = S THEN S ELSE Closure(g, T)

\* Funds reachable from f by one or more holdings.
Descendants(g, f) == Closure(g, Children(g, f))

\* A directed cycle (a self-edge included) is reachable from f.
CycleReachable(g, f) == \E n \in Closure(g, {f}) : n \in Descendants(g, n)

IsBase(g, n) == Len(g[n]) = 0

ReachableBase(g, f) == {n \in Descendants(g, f) : IsBase(g, n)}

AllPositive(g) == \A n \in DOMAIN g : \A i \in 1..Len(g[n]) : g[n][i].value > 0

\* Sum over every path from f to the base fund b of the product of
\* value / parent's total along the path (acyclic graphs only).
RECURSIVE PathWeight(_, _, _)
RECURSIVE PathWeightFrom(_, _, _, _)
PathWeightFrom(g, f, b, i) ==
    IF i > Len(g[f]) THEN <<0, 1>>
    ELSE LET c == g[f][i].child
             share == Rat(g[f][i].value, FundValue(g[f]))
             below == IF c = b THEN <<1, 1>>
                      ELSE IF IsBase(g, c) THEN <<0, 1>>
                      ELSE PathWeight(g, c, b)
         IN  RAdd(RMul(share, below), PathWeightFrom(g, f, b, i + 1))
PathWeight(g, f, b) == PathWeightFrom(g, f, b, 1)

RECURSIVE SumOver(_, _)
SumOver(w, keys) ==
    IF keys = {} THEN <<0, 1>>
    ELSE LET k == CHOOSE x \in keys : TRUE
         IN  RAdd(w[k], SumOver(w, keys \ {k}))

\* The names the returned dict is keyed by.
KeysOf(weights) == {weights.items[i].name : i \in 1..Len(weights.items)}

\* The base-fund mapping the returned dict holds for the fund asked about.
MappingOf(weights, name) ==
    LET i == CHOOSE j \in 1..Len(weights.items) : weights.items[j].name = name
    IN  weights.items[i].w

\* The last call was a top-level call that started with an empty path.
FreshCall == pc = "returned" /\ last.called /\ last.fresh

\* ... on a root with holdings in an acyclic part of the graph
AcyclicCall ==
    /\ FreshCall
    /\ ~IsBase(funds, last.fund)
    /\ ~CycleReachable(funds, last.fund)

WellFormed(row) ==
    /\ Len(row) = 3
    /\ ParseValue(row[3]).ok
    /\ row[1] # "" /\ row[2] # ""

WellFormedRows == {row \in InputRows : WellFormed(row)}

NamesIn(rows) == UNION {{rows[i][1], rows[i][2]} : i \in 1..Len(rows)}
ChildrenIn(rows) == {rows[i][2] : i \in 1..Len(rows)}

----------------------------------------------------------------------------
\* C1: on a graph built from strictly positive values, a call with an
\* empty path on a root with holdings and no reachable cycle returns, for
\* that root, a mapping whose weights sum to exactly 1, at any depth.
C1_WeightsSumToOne ==
    (AcyclicCall /\ AllPositive(funds)) =>
        /\ last.st = "ok"
        /\ last.fund \in KeysOf(last.weights)
        /\ LET w == MappingOf(last.weights, last.fund)
           IN  SumOver(w, DOMAIN w) = <<1, 1>>

\* C2: the weight reported for a base fund under the root is the sum over
\* every distinct path of the product of the ratios along the path; a later
\* contribution is added to an earlier one.
C2_WeightIsSumOverPaths ==
    (AcyclicCall /\ AllPositive(funds)) =>
        /\ last.st = "ok"
        /\ last.fund \in KeysOf(last.weights)
        /\ LET w == MappingOf(last.weights, last.fund)
           IN  \A b \in ReachableBase(funds, last.fund) :
                   b \in DOMAIN w /\ w[b] = PathWeight(funds, last.fund, b)

\* C3: the key set of the mapping calculate_weights returns for a root with
\* holdings in an acyclic graph is exactly the set of base funds reachable
\* from the root: no intermediate fund, not the root.
C3_KeysAreReachableBaseFunds ==
    (AcyclicCall /\ AllPositive(funds)) =>
        /\ last.st = "ok"
        /\ KeysOf(last.weights) = ReachableBase(funds, last.fund)

\* C4: when a directed cycle is reachable from the queried fund, a call
\* with an empty path raises the cycle-detected DataError; building such a
\* graph raised nothing.
C4_CycleRaisesDataError ==
    (FreshCall /\ CycleReachable(funds, last.fund)) =>
        (last.st = "DataError" /\ read_error = NoError)

\* C5: every top-level call without a path argument starts with an empty
\* path, so its outcome is the one the graph and the fund name determine,
\* and no call on an acyclic graph raises the cycle-detected error.
C5_EveryCallStartsFresh ==
    /\ visited = {}
    /\ (pc = "returned" /\ last.called) =>
          LET r == calculate_weights(funds, last.fund, {})
          IN  /\ last.st = r.st /\ last.errfund = r.errfund
              /\ last.value = r.value /\ last.weights = r.weights
              /\ (~CycleReachable(funds, last.fund) => last.st # "DataError")

\* C6: a well-formed row whose (parent, child) pair occurred in an earlier
\* row of the list raises DataError "Duplicate fund entry" at its own
\* position, whatever the two values are, and no graph is returned.
C6_DuplicateRaises ==
    [][(pc = "reading" /\ funds_list # <<>>) =>
       \A row \in WellFormedRows :
          ( /\ \E j \in 1..Len(funds_list) :
                   funds_list[j][1] = row[1] /\ funds_list[j][2] = row[2]
            /\ ReadRow(row) )
          => ( /\ pc' = "raised"
               /\ read_error' = [type |-> "DataError", msg |-> "Duplicate fund entry",
                                 line |-> Len(funds_list) + 1]
               /\ funds' = <<>> )]_vars

C6_Witness ==
    /\ pc = "raised"
    /\ read_error.msg = "Duplicate fund entry"
    /\ read_error.line = 3

\* C7: a row whose value parses as zero or negative raises the
\* malformed-data DataError and adds no holding; every holding value in a
\* returned graph is strictly positive.
C7_NonPositiveValueRaises ==
    [][ /\ \A row \in InputRows :
              ( /\ pc = "reading"
                /\ Len(row) = 3
                /\ ParseValue(row[3]).ok
                /\ ParseValue(row[3]).val <= 0
                /\ ReadRow(row) )
              => (pc' = "raised" /\ read_error'.type = "DataError")
        /\ (pc' = "returned" => AllPositive(funds')) ]_vars

\* C8: the returned root set is every name that occurred as parent or child
\* minus every name that occurred as child; it is empty when every entity
\* has an incoming edge, and every child name is a key of the graph.
C8_RootSet ==
    [][Return =>
          /\ root_nodes' = NamesIn(funds_list) \ ChildrenIn(funds_list)
          /\ DOMAIN funds' = NamesIn(funds_list)
          /\ ChildrenIn(funds_list) \subseteq DOMAIN funds'
          /\ (NamesIn(funds_list) \subseteq ChildrenIn(funds_list) => root_nodes' = {})]_vars

C8_Witness ==
    /\ pc = "returned"
    /\ Cardinality(DOMAIN funds) >= 3
    /\ root_nodes # {}
    /\ root_nodes # DOMAIN funds

\* C9: calculate_weights called directly on a fund with no holdings
\* returns (0, empty mapping): a mapping with no entries, not an absent
\* value.
C9_BaseFundReturnsEmptyMapping ==
    (FreshCall /\ IsBase(funds, last.fund)) =>
        /\ last.st = "ok"
        /\ last.value = 0
        /\ last.weights = Dict(<<>>)

\* C10: on an acyclic graph a call with an empty path never raises the
\* cycle-detected error, diamonds and funds held by sibling funds included:
\* the path holds only the funds of the active root-to-node path.
C10_NoFalseCycle ==
    (FreshCall /\ ~CycleReachable(funds, last.fund)) => last.st # "DataError"

\* A fund with holdings reached through two parents, and the call succeeded.
C10_Witness ==
    /\ FreshCall
    /\ last.st = "ok"
    /\ \E n \in Descendants(funds, last.fund) :
          /\ ~IsBase(funds, n)
          /\ Cardinality({p \in Closure(funds, {last.fund}) : n \in Children(funds, p)}) >= 2

====
